---------------------------- MODULE Spec2Model ----------------------------
(***************************************************************************)
(* Fairness-aware classifier optimisation harness                          *)
(* (setting_D/fal_model.py, setting_D/frf_model.py,                        *)
(*  trad_setting_E/adult_lr_model.py).                                     *)
(*                                                                         *)
(* Scores are exact rationals <<n, d>> in lowest terms with d > 0.         *)
(* Predicted probabilities are the levels 0, 1, 2 (probability level/2);   *)
(* a non-finite prediction (NaN or an infinity) is the value NonFinite.    *)
(***************************************************************************)
EXTENDS Integers, Sequences, FiniteSets, TLC

VARIABLES
    \* strong_demographic_parity_score(s, y_prob): arguments and result
    sdp_s, sdp_y_prob, sdp_ret,
    \* best_model(trials): argument and result
    bm_trials, bm_ret,
    \* the fold selection on its own: the dataset, the frame as loaded, the
    \* frame after data_prep, the outer folds and the inner folds of one of
    \* them, and how far the selection got
    sp_data, sp_df, sp_X, sp_outer, sp_inner, sp_phase,
    \* a run of one script
    family,          \* which script: "fal", "frf" or "lr"
    data,            \* the dataset: <<y, s>> per record
    rng,             \* the permutation scheme of the seeded splitter
    behaviour,       \* the classifier collaborator: configuration -> predictions
    pc, error,       \* position in the script; the error that ended it
    sloopschepen,    \* the prepared frame (its X and y share the index)
    ct,              \* the module-level ColumnTransformer: its fit state
    th, theta,       \* sweep position (1-based); the global theta, in tenths
    outer_folds, outer_i,  \* outer split; number of the fold in progress
    X_train_df, y_train_df, X_test_df, y_test_df, s_train, s_test,
    trials, params,  \* the trial log and the configuration under evaluation
    roc_auc_y, roc_auc_s,  \* what the evaluator returned to objective
    cv_folds, cv_i,  \* inner split; number of the fold in progress
    X_train, y_train, X_test, y_test, cv_s_test, cv_s_train,
    clf,             \* the classifier fitted last
    y_pred_probs,
    auc_perf_list, auc_fair_list,
    params_best_model,
    mean_roc_auc, mean_strong_dp,
    auc_list, sdp_list, std_auc_list, std_sdp_list,
    \* a Clamper on its own, one column: the training column, the instance
    \* (is_fit, values_to_keep), the column handed to transform, what
    \* transform returned, what transform returned for that again
    cl_train, clamper, cl_X, transformed_X, transformed_again, cl_phase,
    \* num_transformer on its own: the numeric columns of a training and of
    \* a test partition, the fit state of the pipeline, its two outputs
    num_train, num_test, num_transformer, num_train_out, num_test_out, num_phase

sdpVars == <<sdp_s, sdp_y_prob, sdp_ret>>
bmVars == <<bm_trials, bm_ret>>
spVars == <<sp_data, sp_df, sp_X, sp_outer, sp_inner, sp_phase>>
dataVars == <<family, data, rng, behaviour, sloopschepen>>
sweepVars == <<th, theta, auc_list, sdp_list, std_auc_list, std_sdp_list>>
outerVars == <<outer_folds, outer_i, X_train_df, y_train_df, X_test_df, y_test_df,
               s_train, s_test, params_best_model, mean_roc_auc, mean_strong_dp>>
searchVars == <<trials, params, roc_auc_y, roc_auc_s>>
cvVars == <<cv_folds, cv_i, X_train, y_train, X_test, y_test, cv_s_test, cv_s_train,
            auc_perf_list, auc_fair_list>>
modelVars == <<ct, clf, y_pred_probs>>
runVars == <<dataVars, pc, error, sweepVars, outerVars, searchVars, cvVars, modelVars>>
clVars == <<cl_train, clamper, cl_X, transformed_X, transformed_again, cl_phase>>
numVars == <<num_train, num_test, num_transformer, num_train_out, num_test_out, num_phase>>
ppVars == <<clVars, numVars>>
vars == <<sdpVars, bmVars, spVars, runVars, ppVars>>

-----------------------------------------------------------------------------
(* Bounds of the model *)

\* longest sample handed to strong_demographic_parity_score
MaxLen == 3
\* largest protected value (values are 0..MaxProt)
MaxProt == 2
\* longest trial log handed to best_model on its own
MaxTrials == 3
\* number of folds of both the outer and the inner split (K = 10 and cv = 10
\* in the scripts)
K == 2
\* largest dataset whose fold selection is checked on its own
MaxRows == 4
\* trials per search (hyperopt_evals = 100 in the scripts)
hyperopt_evals == 2
\* how many values of the theta grid 0.0, 0.1, ... the sweep visits (11 in
\* the scripts)
NumThetas == 2

-----------------------------------------------------------------------------
(* Exact arithmetic on scores *)

RECURSIVE GCD(_, _)
GCD(a, b) == IF b = 0 THEN a ELSE GCD(b, a % b)

Abs(x) == IF x < 0 THEN -x ELSE x

Rat(n, d) ==
    LET g == GCD(Abs(n), Abs(d))
        sg == IF d < 0 THEN -1 ELSE 1
    IN  <<(sg * n) \div g, (sg * d) \div g>>

RInt(n) == <<n, 1>>
RHalf == <<1, 2>>
RAdd(a, b) == Rat(a[1] * b[2] + b[1] * a[2], a[2] * b[2])
RSub(a, b) == Rat(a[1] * b[2] - b[1] * a[2], a[2] * b[2])
RMul(a, b) == Rat(a[1] * b[1], a[2] * b[2])
RNeg(a) == <<-a[1], a[2]>>
RLess(a, b) == a[1] * b[2] < b[1] * a[2]
RLeq(a, b) == a[1] * b[2] <= b[1] * a[2]
RAbs(a) == <<Abs(a[1]), a[2]>>
\* Python's max(a, b): b unless a is strictly greater
RMax(a, b) == IF RLess(b, a) THEN a ELSE b

-----------------------------------------------------------------------------
(* Predictions and sklearn.metrics.roc_auc_score *)

NonFinite == -1
Levels == 0..2
Probs == Levels \cup {NonFinite}
isfinite(x) == x # NonFinite

SeqSet(q) == {q[i] : i \in DOMAIN q}
Count(q, v) == Cardinality({i \in DOMAIN q : q[i] = v})

\* Result of a call that either returns a score or raises
Ok(v) == [raised |-> FALSE, value |-> v]
Raise == [raised |-> TRUE, value |-> <<0, 1>>]

\* The statistic left unnormalised (not divided by the number of pairs).
AucValueUnnormalised(y_true, y_score) ==
    LET pos == {i \in DOMAIN y_true : y_true[i]}
        neg == {i \in DOMAIN y_true : ~y_true[i]}
        conc == Cardinality({p \in pos \X neg : y_score[p[1]] > y_score[p[2]]})
        ties == Cardinality({p \in pos \X neg : y_score[p[1]] = y_score[p[2]]})
    IN  Rat(2 * conc + ties, 2)

\* Mann-Whitney form of the area under the ROC curve, ties counted half.
AucValue(y_true, y_score) ==
    LET pos == {i \in DOMAIN y_true : y_true[i]}
        neg == {i \in DOMAIN y_true : ~y_true[i]}
        conc == Cardinality({p \in pos \X neg : y_score[p[1]] > y_score[p[2]]})
        ties == Cardinality({p \in pos \X neg : y_score[p[1]] = y_score[p[2]]})
    IN  Rat(2 * conc + ties, 2 * Cardinality(pos) * Cardinality(neg))

\* roc_auc_score(y_true, y_score), y_true a sequence of booleans.  It raises
\* ValueError when y_score holds a NaN or an infinity and when y_true holds
\* only one class.
roc_auc_score(y_true, y_score) ==
    IF \E i \in DOMAIN y_score : ~isfinite(y_score[i]) THEN Raise
    ELSE IF SeqSet(y_true) # {TRUE, FALSE} THEN Raise
    ELSE Ok(AucValue(y_true, y_score))

-----------------------------------------------------------------------------
(* strong_demographic_parity_score, one protected column *)

\* np.unique of a column: its distinct values
unique(col) == SeqSet(col)

\* s_bool = (s[:, s_column] == s_unique)
s_bool(col, v) == [i \in DOMAIN col |-> col[i] = v]

\* the symmetrisation auc = max(1-auc, auc) left out
SymAucPlain(col, v, y_prob) == roc_auc_score(s_bool(col, v), y_prob)

\* auc = roc_auc_score(s_bool, y_prob); auc = max(1-auc, auc)
SymAuc(col, v, y_prob) ==
    LET r == roc_auc_score(s_bool(col, v), y_prob)
    IN  IF r.raised THEN r ELSE Ok(RMax(RSub(RInt(1), r.value), r.value))

\* The loop over np.unique(s[:, s_column]): the running maximum sens_auc,
\* starting from 0, visiting the values in ascending order.
RECURSIVE SensAucLoop(_, _, _, _)
SensAucLoop(col, todo, y_prob, sens_auc) ==
    IF todo = {} THEN Ok(sens_auc)
    ELSE LET v == CHOOSE x \in todo : \A z \in todo : x <= z
             r == SymAuc(col, v, y_prob)
         IN  IF r.raised THEN Raise
             ELSE SensAucLoop(col, todo \ {v}, y_prob, RMax(sens_auc, r.value))

\* The single-value branch left out: every column goes through the loop.
ColumnScoreNoDegenerate(col, y_prob) ==
    LET r == SensAucLoop(col, unique(col), y_prob, RInt(0))
    IN  [raised |-> r.raised, value |-> r.value,
         auc_calls |-> IF r.raised THEN 1 ELSE Cardinality(unique(col))]

\* One pass of the loop over the columns: the entry appended to
\* sensitive_aucs, with the number of roc_auc_score calls it made.
ColumnScore(col, y_prob) ==
    IF Cardinality(unique(col)) = 1
    THEN [raised |-> FALSE, value |-> RInt(1), auc_calls |-> 0]
    ELSE LET r == SensAucLoop(col, unique(col), y_prob, RInt(0))
         IN  [raised |-> r.raised, value |-> r.value,
              auc_calls |-> IF r.raised THEN 1 ELSE Cardinality(unique(col))]

\* the largest symmetrised AUC returned as it is, not rescaled to |2*auc-1|
strong_demographic_parity_score_raw(s, y_prob) ==
    LET c == ColumnScore(s, y_prob)
    IN  [raised |-> c.raised, value |-> c.value, auc_calls |-> c.auc_calls]

\* strong_demographic_parity_score(s, y_prob) for a one-dimensional s:
\* s_auc = sensitive_aucs[0]; sdp = abs(2*s_auc-1)
strong_demographic_parity_score(s, y_prob) ==
    LET c == ColumnScore(s, y_prob)
    IN  IF c.raised THEN [raised |-> TRUE, value |-> RInt(0), auc_calls |-> c.auc_calls]
        ELSE [raised |-> FALSE,
              value |-> RAbs(RSub(RMul(RInt(2), c.value), RInt(1))),
              auc_calls |-> c.auc_calls]

\* the result slot before the call
NotCalled == [called |-> FALSE, raised |-> FALSE, value |-> RInt(0), auc_calls |-> 0]

-----------------------------------------------------------------------------
(* Tables, and sklearn's StratifiedKFold(n_splits, shuffle=True)            *)
(*                                                                         *)
(* A table (DataFrame or Series) is the sequence of its rows, each row     *)
(* <<label, record>>: its index label and the record of the dataset it     *)
(* holds.  A dataset is a sequence of <<y, s>> (target, protected value);  *)
(* record r is its element r+1.  Positions are 0-based as in the code.     *)

Label(row) == row[1]
Rec(row) == row[2]
Labels(tbl) == {Label(tbl[i]) : i \in DOMAIN tbl}
Recs(tbl) == {Rec(tbl[i]) : i \in DOMAIN tbl}

\* the index left as the loader produced it
data_prep_keep_index(df) == df

\* data_prep: targets and predictors both get .reset_index(drop=True)
data_prep(df) == [i \in DOMAIN df |-> <<i - 1, Rec(df[i])>>]

\* the selection turned round: the rows whose label is NOT in the given set
isin_not(tbl, positions) == SelectSeq(tbl, LAMBDA row : Label(row) \notin positions)

\* X[X.index.isin(positions)]: the rows whose LABEL is in the given set
isin(tbl, positions) == SelectSeq(tbl, LAMBDA row : Label(row) \in positions)

\* a key built from the target alone
splitter_y_target_only(tbl, dat) == [i \in DOMAIN tbl |-> <<dat[Rec(tbl[i]) + 1][1], 0>>]

\* splitter_y = y.astype(str) + s.astype(str): the two digits of each row
splitter_y(tbl, dat) == [i \in DOMAIN tbl |-> dat[Rec(tbl[i]) + 1]]

\* the classes of the key in order of first appearance
RECURSIVE ClassOrder(_, _)
ClassOrder(keys, seen) ==
    IF keys = <<>> THEN seen
    ELSE ClassOrder(Tail(keys),
                    IF Head(keys) \in SeqSet(seen) THEN seen ELSE Append(seen, Head(keys)))

\* the positions (1-based, ascending) holding class number cidx
Members(keys, cidx) ==
    LET cls == ClassOrder(keys, <<>>)[cidx]
    IN  SelectSeq([p \in DOMAIN keys |-> p], LAMBDA p : keys[p] = cls)

\* allocation[i][c]: how many members of class c fold i tests, counted on
\* the sorted encoded labels, y_order[i::n_splits]
Allocation(keys, n_splits, i, cidx) ==
    LET order == ClassOrder(keys, <<>>)
        before == Cardinality({p \in DOMAIN keys :
                       \E b \in 1..(cidx - 1) : keys[p] = order[b]})
        cnt == Count(keys, order[cidx])
    IN  Cardinality({q \in before..(before + cnt - 1) : q % n_splits = i})

\* folds_for_class = np.arange(n_splits).repeat(allocation[:, c])
RECURSIVE FoldsForClass(_, _, _, _)
FoldsForClass(keys, n_splits, cidx, i) ==
    IF i = n_splits THEN <<>>
    ELSE [t \in 1..Allocation(keys, n_splits, i, cidx) |-> i]
             \o FoldsForClass(keys, n_splits, cidx, i + 1)

\* rng.shuffle(folds_for_class).  The generator is seeded (random_state =
\* 42), so a run sees one fixed permutation scheme; the schemes modelled:
\* "keep" (identity), "reverse", "riffle" (the two halves interleaved).
\* "any" stands for every permutation and is resolved in TestFoldsSet.
ShuffleKinds == {"keep", "reverse", "riffle"}

shuffle(kind, a) ==
    LET m == Len(a)
        h == (m + 1) \div 2
    IN  CASE kind = "keep" -> a
          [] kind = "reverse" -> [t \in 1..m |-> a[m + 1 - t]]
          [] kind = "riffle" ->
                [t \in 1..m |-> IF t % 2 = 1 THEN a[(t + 1) \div 2] ELSE a[h + t \div 2]]

\* StratifiedKFold raises ValueError when there are fewer samples than
\* folds, or when no class has as many members as there are folds
SplitRaises(keys, n_splits) ==
    \/ n_splits > Len(keys)
    \/ \A c \in SeqSet(keys) : n_splits > Count(keys, c)

\* the test_folds arrays (position -> fold) the splitter can produce
TestFoldsSet(keys, n_splits, kind) ==
    LET order == ClassOrder(keys, <<>>)
    IN  IF kind = "any"
        THEN {tf \in [DOMAIN keys -> 0..(n_splits - 1)] :
                 \A cidx \in DOMAIN order : \A i \in 0..(n_splits - 1) :
                     Cardinality({p \in DOMAIN keys : keys[p] = order[cidx] /\ tf[p] = i})
                         = Allocation(keys, n_splits, i, cidx)}
        ELSE {[p \in DOMAIN keys |->
                 LET cidx == CHOOSE c \in DOMAIN order : order[c] = keys[p]
                     mem == Members(keys, cidx)
                     rank == CHOOSE t \in DOMAIN mem : mem[t] = p
                 IN  shuffle(kind, FoldsForClass(keys, n_splits, cidx, 0))[rank]]}

\* splitter.split(X, splitter_y): for each fold the POSITIONS (0-based) of
\* its training rows and of its test rows
Folds(tf, n_splits) ==
    [f \in 1..n_splits |->
        [trainset |-> {p - 1 : p \in {q \in DOMAIN tf : tf[q] # f - 1}},
         testset |-> {p - 1 : p \in {q \in DOMAIN tf : tf[q] = f - 1}}]]

\* the two partitions of one fold, as the scripts select them
FoldTables(X, fold) ==
    [X_train |-> isin(X, fold.trainset), X_test |-> isin(X, fold.testset)]

-----------------------------------------------------------------------------
(* best_model(trials) *)

\* hyperopt's status strings
STATUS_OK == "ok"
STATUS_FAIL == "fail"

\* every trial taken as valid, whatever its status
ValidTrialsUnfiltered(log) == log

\* valid_trial_list = [trial for trial in trials if STATUS_OK == trial['result']['status']]
ValidTrials(log) == SelectSeq(log, LAMBDA tr : tr.status = STATUS_OK)

\* np.argmin(losses): the first index holding the minimum (1-based here)
argmin(losses) ==
    CHOOSE i \in DOMAIN losses :
        /\ \A j \in DOMAIN losses : RLeq(losses[i], losses[j])
        /\ \A j \in DOMAIN losses : j < i => RLess(losses[i], losses[j])

\* np.argmin of an empty list raises this ValueError
ArgminEmptyError == "ValueError: attempt to get argmin of an empty sequence"

BmNotCalled == [called |-> FALSE, raised |-> FALSE, error |-> "", trained_model |-> 0]

best_model(log) ==
    LET valid_trial_list == ValidTrials(log)
        losses == [i \in DOMAIN valid_trial_list |-> valid_trial_list[i].loss]
    IN  IF losses = <<>>
        THEN [raised |-> TRUE, error |-> ArgminEmptyError, trained_model |-> 0]
        ELSE [raised |-> FALSE, error |-> "",
              trained_model |-> valid_trial_list[argmin(losses)].trained_model]

-----------------------------------------------------------------------------
(* The scripts: data, preprocessing pipeline, classifier collaborator      *)

Families == {"fal", "frf", "lr"}

\* the grid np.arange(0.0, 1.1, 0.1) in tenths, as far as the sweep is
\* followed; adult_lr_model.py has the single module-level theta = 0.0
theta_list(fam) == IF fam = "lr" THEN <<0>> ELSE [i \in 1..NumThetas |-> i - 1]

\* the points of the search space tpe.suggest proposes
ParamSpace == {"a", "b"}

\* what a fitted classifier predicts for a record: probability 0.5 for
\* all; the target; the protected value; or the target, with a non-finite
\* value for record 0
PredKinds == {"const", "label", "prot", "nonfinite"}

\* datasets of 16 records, four of each <<y, s>>.  On the first the folds
\* of a run under the "riffle" scheme all hold both classes; the second is
\* the four combinations repeated.
Datasets ==
    { << <<0, 0>>, <<1, 1>>, <<0, 0>>, <<1, 1>>, <<0, 1>>, <<0, 1>>, <<1, 0>>, <<1, 0>>,
         <<0, 0>>, <<1, 1>>, <<0, 1>>, <<1, 0>>, <<1, 1>>, <<1, 0>>, <<0, 1>>, <<0, 0>> >>,
      << <<0, 0>>, <<0, 1>>, <<1, 0>>, <<1, 1>>, <<0, 0>>, <<0, 1>>, <<1, 0>>, <<1, 1>>,
         <<0, 0>>, <<0, 1>>, <<1, 0>>, <<1, 1>>, <<0, 0>>, <<0, 1>>, <<1, 0>>, <<1, 1>> >> }

\* a DataFrame of predictors: its rows and which columns it holds:
\* "predictors" (all, sensitive_col among them), "dropped" (sensitive_col
\* dropped) or "matrix" (the output of ct)
Tbl(rows, form) == [rows |-> rows, form |-> form]
NoTable == Tbl(<<>>, "none")

\* the target and the protected value of the rows of a table, as booleans
\* for roc_auc_score (positive class 1)
y_of(rows, dat) == [i \in DOMAIN rows |-> dat[Rec(rows[i]) + 1][1] = 1]
s_of(rows, dat) == [i \in DOMAIN rows |-> dat[Rec(rows[i]) + 1][2] = 1]
\* the protected column itself
s_col(rows, dat) == [i \in DOMAIN rows |-> dat[Rec(rows[i]) + 1][2]]

\* X.drop(columns=[sensitive_col])
drop_sensitive(X) == Tbl(X.rows, "dropped")

\* the columns a table of the given form holds: data_prep selects the
\* predictors (sensitive_col among them, target_col not); the output of ct
\* is derived from its input
Columns(form) ==
    CASE form = "predictors" -> {"features", "sensitive"}
      [] form = "dropped" -> {"features"}
      [] form = "matrix" -> {"features"}
      [] form = "none" -> {}

\* a transformer that hands its rows back in reverse order
Matrix_reversed(X) ==
    Tbl([i \in DOMAIN X.rows |-> <<i - 1, Rec(X.rows[Len(X.rows) + 1 - i])>>], "matrix")

\* ct.fit_transform(X) / ct.transform(X) return a matrix; wrapped in
\* pd.DataFrame it gets a fresh RangeIndex
Matrix(X) == Tbl([i \in DOMAIN X.rows |-> <<i - 1, Rec(X.rows[i])>>], "matrix")

\* sklearn refuses to fit or transform a table without rows
FitRaises(X) == X.rows = <<>>
TransformRaises(state, X) == ~state.fitted \/ X.rows = <<>>

\* a pipeline fitted once and never again: an earlier fit state is kept
CtFitOnce(X) == IF ct.fitted THEN ct ELSE [fitted |-> TRUE, on |-> Recs(X.rows)]

\* the fit state left by ct.fit_transform(X): ColumnTransformer fits fresh
\* copies of its transformers, so the state is that of a fit on X alone
CtFit(X) == [fitted |-> TRUE, on |-> Recs(X.rows)]
CtUnfitted == [fitted |-> FALSE, on |-> {}]

\* predict_proba(X_test).T[1] of a classifier of the given kind
predict_proba(kind, rows, dat) ==
    [i \in DOMAIN rows |->
        LET r == Rec(rows[i])
        IN  CASE kind = "const" -> 1
              [] kind = "label" -> 2 * dat[r + 1][1]
              [] kind = "prot" -> 2 * dat[r + 1][2]
              [] kind = "nonfinite" -> IF r = 0 THEN NonFinite ELSE 2 * dat[r + 1][1]]

RECURSIVE RSum(_)
RSum(q) == IF q = <<>> THEN RInt(0) ELSE RAdd(Head(q), RSum(Tail(q)))

\* the scores summed and not divided by their number
mean_unscaled(q) == RSum(q)

\* np.nanmean / np.average of a list of scores (no entry is ever NaN: a
\* score is appended only when roc_auc_score returned)
mean(q) == RMul(RSum(q), Rat(1, Len(q)))

\* np.std(q), kept as its square: the mean squared deviation
variance(q) ==
    LET m == mean(q)
    IN  mean([i \in DOMAIN q |-> RMul(RSub(q[i], m), RSub(q[i], m))])

\* theta as a score weight
Theta(tenths) == Rat(tenths, 10)

\* the fairness score without the absolute value
fair_auc_signed(auc) == RAdd(RHalf, RSub(RHalf, auc))

\* the fairness score of a fold of the evaluator
fair_auc(auc) == RAdd(RHalf, RAbs(RSub(RHalf, auc)))

\* the fairness term added instead of subtracted
goal_plus(fam, th_, perf, fair) ==
    IF fam = "frf" THEN perf
    ELSE RAdd(RMul(RSub(RInt(1), Theta(th_)), perf), RMul(Theta(th_), fair))

\* objective: goal = (1-theta) * roc_auc_y - theta * roc_auc_s; the fair
\* random forest script takes the single score, theta being a parameter of
\* the model
goal(fam, th_, perf, fair) ==
    IF fam = "frf" THEN perf
    ELSE RSub(RMul(RSub(RInt(1), Theta(th_)), perf), RMul(Theta(th_), fair))

\* a result that reports a failed evaluation
objective_result_failed(fam, th_, perf, fair, prm) ==
    [loss |-> RNeg(goal(fam, th_, perf, fair)), status |-> STATUS_FAIL,
     trained_model |-> prm]

\* the result objective returns
objective_result(fam, th_, perf, fair, prm) ==
    [loss |-> RNeg(goal(fam, th_, perf, fair)), status |-> STATUS_OK,
     trained_model |-> prm]

-----------------------------------------------------------------------------
(* The parts of the state a specification leaves alone *)

SdpIdle == sdp_s = <<>> /\ sdp_y_prob = <<>> /\ sdp_ret = NotCalled

BmIdle == bm_trials = <<>> /\ bm_ret = BmNotCalled

SpIdle ==
    /\ sp_data = <<>> /\ sp_df = <<>> /\ sp_X = <<>> /\ sp_outer = <<>>
    /\ sp_inner = [X |-> <<>>, folds |-> <<>>] /\ sp_phase = "unused"

\* the values the variables of a run hold before the run assigns them
RunUnassigned ==
    /\ error = "" /\ ct = CtUnfitted
    /\ th = 1 /\ theta = 0
    /\ auc_list = <<>> /\ sdp_list = <<>> /\ std_auc_list = <<>> /\ std_sdp_list = <<>>
    /\ outer_folds = <<>> /\ outer_i = 0
    /\ X_train_df = NoTable /\ X_test_df = NoTable
    /\ y_train_df = <<>> /\ y_test_df = <<>> /\ s_train = <<>> /\ s_test = <<>>
    /\ params_best_model = [cfg |-> "none"]
    /\ mean_roc_auc = <<>> /\ mean_strong_dp = <<>>
    /\ trials = <<>> /\ params = [cfg |-> "none"]
    /\ roc_auc_y = <<>> /\ roc_auc_s = <<>>
    /\ cv_folds = <<>> /\ cv_i = 0
    /\ X_train = NoTable /\ X_test = NoTable
    /\ y_train = <<>> /\ y_test = <<>> /\ cv_s_test = <<>> /\ cv_s_train = <<>>
    /\ auc_perf_list = <<>> /\ auc_fair_list = <<>>
    /\ clf = [cfg |-> "none", on |-> {}]
    /\ y_pred_probs = <<>>

RunIdle ==
    /\ family = "none" /\ data = <<>> /\ rng = "none" /\ behaviour = <<>>
    /\ sloopschepen = <<>> /\ pc = "unused"
    /\ RunUnassigned

\* the instance as __init__ leaves it
ClamperNew == [is_fit |-> FALSE, values_to_keep |-> <<>>]

ClIdle ==
    /\ cl_train = <<>> /\ clamper = ClamperNew /\ cl_X = <<>>
    /\ transformed_X = <<>> /\ transformed_again = <<>> /\ cl_phase = "unused"

\* num_transformer before any fit
NumUnfitted == [fitted |-> FALSE, features_ |-> {}, kept |-> {}]

NumIdle ==
    /\ num_train = <<>> /\ num_test = <<>> /\ num_transformer = NumUnfitted
    /\ num_train_out = <<>> /\ num_test_out = <<>> /\ num_phase = "unused"

PpIdle == ClIdle /\ NumIdle

-----------------------------------------------------------------------------
(* Specification SpecSplit: the fold selection applied to every small      *)
(* dataset, under every permutation the shuffle can produce.               *)

Keys == {0, 1} \X {0, 1}

\* the frame the loader returns: a RangeIndex, or an index with gaps (rows
\* filtered out before)
LoaderIndex == {"range", "gapped"}

SplitInit ==
    /\ \E n \in 2..MaxRows : sp_data \in [1..n -> Keys]
    /\ \E ix \in LoaderIndex :
          sp_df = [i \in DOMAIN sp_data |->
                      <<IF ix = "range" THEN i - 1 ELSE 2 * i - 1, i - 1>>]
    /\ sp_X = <<>> /\ sp_outer = <<>>
    /\ sp_inner = [X |-> <<>>, folds |-> <<>>]
    /\ sp_phase = "loaded"
    /\ SdpIdle /\ BmIdle /\ RunIdle /\ PpIdle

\* sloopschepen = data_prep(...)
SpDataPrep ==
    /\ sp_phase = "loaded"
    /\ sp_X' = data_prep(sp_df)
    /\ sp_phase' = "prepared"
    /\ UNCHANGED <<sp_data, sp_df, sp_outer, sp_inner, sdpVars, bmVars, runVars, ppVars>>

\* for trainset, testset in sloopschepen["folds"].split(X, splitter_y)
SpOuterSplit ==
    /\ sp_phase = "prepared"
    /\ ~SplitRaises(splitter_y(sp_X, sp_data), K)
    /\ \E tf \in TestFoldsSet(splitter_y(sp_X, sp_data), K, "any") :
          sp_outer' = [f \in 1..K |-> FoldTables(sp_X, Folds(tf, K)[f])]
    /\ sp_phase' = "outer"
    /\ UNCHANGED <<sp_data, sp_df, sp_X, sp_inner, sdpVars, bmVars, runVars, ppVars>>

SpOuterSplitRaises ==
    /\ sp_phase = "prepared"
    /\ SplitRaises(splitter_y(sp_X, sp_data), K)
    /\ sp_phase' = "raised"
    /\ UNCHANGED <<sp_data, sp_df, sp_X, sp_outer, sp_inner, sdpVars, bmVars, runVars, ppVars>>

\* cross_val_score_custom(params, X_train_df, y_train_df): the inner split
\* of the training partition of one outer fold
SpInnerSplit ==
    /\ sp_phase = "outer"
    /\ \E f \in 1..K :
          LET X == sp_outer[f].X_train
          IN  /\ ~SplitRaises(splitter_y(X, sp_data), K)
              /\ \E tf \in TestFoldsSet(splitter_y(X, sp_data), K, "any") :
                    sp_inner' = [X |-> X,
                                 folds |-> [g \in 1..K |-> FoldTables(X, Folds(tf, K)[g])]]
    /\ sp_phase' = "inner"
    /\ UNCHANGED <<sp_data, sp_df, sp_X, sp_outer, sdpVars, bmVars, runVars, ppVars>>

SpInnerSplitRaises ==
    /\ sp_phase = "outer"
    /\ \E f \in 1..K : SplitRaises(splitter_y(sp_outer[f].X_train, sp_data), K)
    /\ sp_phase' = "raised"
    /\ UNCHANGED <<sp_data, sp_df, sp_X, sp_outer, sp_inner, sdpVars, bmVars, runVars, ppVars>>

SplitNext ==
    \/ SpDataPrep
    \/ SpOuterSplit
    \/ SpOuterSplitRaises
    \/ SpInnerSplit
    \/ SpInnerSplitRaises

SpecSplit == SplitInit /\ [][SplitNext]_vars

-----------------------------------------------------------------------------
(* Specification SpecBest: best_model applied to every small trial log.    *)
(* The payload of the trial at index i is i.                               *)

LossVals == {<<-1, 10>>, <<3, 10>>, <<1, 2>>}

BestInit ==
    /\ \E m \in 0..MaxTrials :
          \E ls \in [1..m -> LossVals], st \in [1..m -> {STATUS_OK, STATUS_FAIL}] :
              bm_trials = [i \in 1..m |->
                              [loss |-> ls[i], status |-> st[i], trained_model |-> i]]
    /\ bm_ret = BmNotCalled
    /\ SdpIdle /\ SpIdle /\ RunIdle /\ PpIdle

CallBestModel ==
    /\ ~bm_ret.called
    /\ LET r == best_model(bm_trials)
       IN  bm_ret' = [called |-> TRUE, raised |-> r.raised, error |-> r.error,
                      trained_model |-> r.trained_model]
    /\ UNCHANGED <<bm_trials, sdpVars, spVars, runVars, ppVars>>

BestNext == CallBestModel

SpecBest == BestInit /\ [][BestNext]_vars

-----------------------------------------------------------------------------
(* Specification SpecSdp: the metric applied to every small sample *)

SdpInit ==
    /\ \E m \in 0..MaxLen :
          /\ sdp_s \in [1..m -> 0..MaxProt]
          /\ sdp_y_prob \in [1..m -> Probs]
    /\ sdp_ret = NotCalled
    /\ BmIdle /\ SpIdle /\ RunIdle /\ PpIdle

CallSdp ==
    /\ ~sdp_ret.called
    /\ LET r == strong_demographic_parity_score(sdp_s, sdp_y_prob)
       IN  sdp_ret' = [called |-> TRUE, raised |-> r.raised, value |-> r.value,
                       auc_calls |-> r.auc_calls]
    /\ UNCHANGED <<sdp_s, sdp_y_prob, bmVars, spVars, runVars, ppVars>>

SdpNext == CallSdp

SpecSdp == SdpInit /\ [][SdpNext]_vars

-----------------------------------------------------------------------------
(* strong_demographic_parity_score on a two-dimensional s: a sequence of   *)
(* protected columns (specification SpecSdpColumns)                        *)

\* most protected columns, and longest sample, handed over in this form
MaxCols == 2
MaxColLen == 2

\* the TypeError Python raises for list - int
ListMinusIntError == "TypeError: unsupported operand type(s) for -: 'list' and 'int'"
\* the ValueError roc_auc_score raises
AucError == "ValueError: roc_auc_score"

\* the loop over range(s.shape[1]): the list sensitive_aucs
sensitive_aucs(s_cols, y_prob) == [c \in DOMAIN s_cols |-> ColumnScore(s_cols[c], y_prob)]

\* s_auc = sensitive_aucs[0] if len(sensitive_aucs)==1 else sensitive_aucs;
\* sdp = abs(2*s_auc-1).  With a list, 2*s_auc is the list repeated and the
\* subtraction of 1 from it raises TypeError before abs is reached.
strong_demographic_parity_score_2d(s_cols, y_prob) ==
    LET aucs == sensitive_aucs(s_cols, y_prob)
    IN  IF \E c \in DOMAIN aucs : aucs[c].raised
        THEN [raised |-> TRUE, error |-> AucError, value |-> <<>>]
        ELSE IF Len(aucs) = 1
        THEN [raised |-> FALSE, error |-> "",
              value |-> RAbs(RSub(RMul(RInt(2), aucs[1].value), RInt(1)))]
        ELSE [raised |-> TRUE, error |-> ListMinusIntError, value |-> <<>>]

SdpColsNotCalled == [called |-> FALSE, raised |-> FALSE, error |-> "", value |-> <<>>]

SdpColsInit ==
    /\ \E m \in 1..MaxColLen : \E n \in 1..MaxCols :
          /\ sdp_s \in [1..n -> [1..m -> 0..1]]
          /\ sdp_y_prob \in [1..m -> Probs]
    /\ sdp_ret = SdpColsNotCalled
    /\ BmIdle /\ SpIdle /\ RunIdle /\ PpIdle

CallSdpCols ==
    /\ ~sdp_ret.called
    /\ LET r == strong_demographic_parity_score_2d(sdp_s, sdp_y_prob)
       IN  sdp_ret' = [called |-> TRUE, raised |-> r.raised, error |-> r.error,
                       value |-> r.value]
    /\ UNCHANGED <<sdp_s, sdp_y_prob, bmVars, spVars, runVars, ppVars>>

SdpColsNext == CallSdpCols

SpecSdpColumns == SdpColsInit /\ [][SdpColsNext]_vars

-----------------------------------------------------------------------------
(* Clamper, one column (specification SpecClamper)                         *)

\* the values a categorical cell takes; "other" is the literal the Clamper
\* writes, and can be a category of the data as well
Cats == {"a", "b", "c", "other"}
\* longest training column, longest column handed to transform
MaxClampRows == 4
MaxClampTest == 2

\* X[column].value_counts().keys(): the distinct values by descending
\* count.  The order among equal counts is not specified: every ranking.
value_counts(col) ==
    LET vals == SeqSet(col)
    IN  {r \in [1..Cardinality(vals) -> vals] :
            /\ \A i, j \in DOMAIN r : i # j => r[i] # r[j]
            /\ \A i, j \in DOMAIN r : i < j => Count(col, r[i]) >= Count(col, r[j])}

\* abs(count_p - min_p_increase) of a value
ThresholdDistance(col, v) ==
    RAbs(RSub(Rat(Count(col, v), Len(col)), Rat(1, Cardinality(SeqSet(col)))))

\* index_to_keep = np.argmin(abs(count_p - min_p_increase)), 0-based: the
\* first index of the smallest distance.  Equal counts give equal floats,
\* hence the first of them; two different frequencies at the same exact
\* distance from the threshold are told apart by floating-point rounding
\* only, so either can be the minimum.
index_to_keep(col, values) ==
    {i - 1 : i \in {k \in DOMAIN values :
        /\ \A j \in DOMAIN values :
              RLeq(ThresholdDistance(col, values[k]), ThresholdDistance(col, values[j]))
        /\ \A j \in DOMAIN values : j < k => Count(col, values[j]) # Count(col, values[k])}}

\* the slice with the selected index in it: values[:index_to_keep + 1]
get_values_to_keep_inclusive(values, idx) == SubSeq(values, 1, idx + 1)

\* values[:index_to_keep]
get_values_to_keep_from_value_counts(values, idx) == SubSeq(values, 1, idx)

\* a cell left as it is, whether retained or not
clamp_identity(keep, v) == v

\* the mask the wrong way round and the replacement taken from the retained
\* values: a retained cell becomes "other", any other cell the first
\* retained value
clamp_inverted(keep, v) ==
    IF v \in SeqSet(keep) THEN "other" ELSE IF keep # <<>> THEN keep[1] ELSE "other"

\* .loc[~(column.isin(values_to_keep))] = "other", for one cell
clamp(keep, v) == IF v \in SeqSet(keep) THEN v ELSE "other"

\* Clamper.transform for one column
Clamper_transform(keep, col) == [i \in DOMAIN col |-> clamp(keep, col[i])]

\* the training columns: their rows grouped by value (fit looks at the
\* counts of the values only)
CatRank == [v \in Cats |-> CASE v = "a" -> 1 [] v = "b" -> 2 [] v = "c" -> 3 [] v = "other" -> 4]
TrainColumns(n) ==
    {col \in [1..n -> Cats] : \A i \in 1..(n - 1) : CatRank[col[i]] <= CatRank[col[i + 1]]}

ClamperInit ==
    /\ \E n \in 1..MaxClampRows : cl_train \in TrainColumns(n)
    /\ \E n \in 1..MaxClampTest : cl_X \in [1..n -> Cats]
    /\ clamper = ClamperNew
    /\ transformed_X = <<>> /\ transformed_again = <<>>
    /\ cl_phase = "new"
    /\ NumIdle /\ SdpIdle /\ BmIdle /\ SpIdle /\ RunIdle

\* Clamper.fit(X)
ClamperFit ==
    /\ cl_phase = "new"
    /\ \E values \in value_counts(cl_train) : \E idx \in index_to_keep(cl_train, values) :
          clamper' = [is_fit |-> TRUE,
                      values_to_keep |-> get_values_to_keep_from_value_counts(values, idx)]
    /\ cl_phase' = "fitted"
    /\ UNCHANGED <<cl_train, cl_X, transformed_X, transformed_again,
                   numVars, sdpVars, bmVars, spVars, runVars>>

\* Clamper.fit_transform(X): the same fit, and the training column clamped
ClamperFitTransform ==
    /\ cl_phase = "new"
    /\ \E values \in value_counts(cl_train) : \E idx \in index_to_keep(cl_train, values) :
          clamper' = [is_fit |-> TRUE,
                      values_to_keep |-> get_values_to_keep_from_value_counts(values, idx)]
    /\ transformed_X' = Clamper_transform(clamper'.values_to_keep, cl_train)
    /\ cl_phase' = "fitted"
    /\ UNCHANGED <<cl_train, cl_X, transformed_again, numVars, sdpVars, bmVars, spVars, runVars>>

\* Clamper.transform(X) on the test column
ClamperTransform ==
    /\ cl_phase = "fitted"
    /\ transformed_X' = Clamper_transform(clamper.values_to_keep, cl_X)
    /\ cl_phase' = "transformed"
    /\ UNCHANGED <<cl_train, clamper, cl_X, transformed_again,
                   numVars, sdpVars, bmVars, spVars, runVars>>

\* Clamper.transform applied to what transform returned
ClamperTransformAgain ==
    /\ cl_phase = "transformed"
    /\ transformed_again' = Clamper_transform(clamper.values_to_keep, transformed_X)
    /\ cl_phase' = "again"
    /\ UNCHANGED <<cl_train, clamper, cl_X, transformed_X, numVars, sdpVars, bmVars, spVars, runVars>>

ClamperNext == ClamperFit \/ ClamperFitTransform \/ ClamperTransform \/ ClamperTransformAgain

SpecClamper == ClamperInit /\ [][ClamperNext]_vars

-----------------------------------------------------------------------------
(* num_transformer: RobustScaler, MissIndicator, SimpleImputer              *)
(* (specification SpecNumeric)                                             *)

\* number of numeric columns (six in num_columns), most training rows
NumNumeric == 2
MaxNumRows == 2

\* a numeric cell as loaded: missing (NaN) or a number
NumCells == {NonFinite, 1}
\* the test partitions: tables of one row
TestRows == 1

\* a cell of a matrix inside the pipeline: a scaled number, a NaN, a
\* missingness flag (with its value), an imputed number
Cell(kind, on) == [kind |-> kind, on |-> on]

\* the elements of a set of column numbers in ascending order
RECURSIVE Ascending(_)
Ascending(S) ==
    IF S = {} THEN <<>>
    ELSE LET m == CHOOSE x \in S : \A z \in S : x <= z
         IN  <<m>> \o Ascending(S \ {m})

\* RobustScaler: the shape is kept, a number is scaled, NaN stays NaN
RobustScaler_transform(X) ==
    [r \in DOMAIN X |->
        [col \in DOMAIN X[r] |->
            IF isfinite(X[r][col]) THEN Cell("scaled", FALSE) ELSE Cell("nan", FALSE)]]

\* MissingIndicator(sparse=False, error_on_new=False).fit(X): features is
\* left at its default "missing-only", so features_ holds the columns with
\* a missing value in X
MissingIndicator_fit(X) ==
    {col \in 1..NumNumeric : \E r \in DOMAIN X : X[r][col].kind = "nan"}

\* np.concatenate([X, self.mi.transform(X)], axis=1): one flag column per
\* member of features_
MissIndicator_transform(features_, X) ==
    LET cols == Ascending(features_)
    IN  [r \in DOMAIN X |->
            X[r] \o [k \in DOMAIN cols |-> Cell("flag", X[r][cols[k]].kind = "nan")]]

\* SimpleImputer().fit(X): a column without any observed value has no
\* mean and is dropped by transform; the columns kept
SimpleImputer_fit(X) ==
    {col \in DOMAIN X[1] : \E r \in DOMAIN X : X[r][col].kind # "nan"}

\* SimpleImputer.transform: the kept columns, NaN replaced by the mean
SimpleImputer_transform(kept, X) ==
    LET cols == Ascending(kept)
    IN  [r \in DOMAIN X |->
            [k \in DOMAIN cols |->
                IF X[r][cols[k]].kind = "nan" THEN Cell("imputed", FALSE)
                ELSE X[r][cols[k]]]]

NumInit ==
    /\ \E n \in 1..MaxNumRows : num_train \in [1..n -> [1..NumNumeric -> NumCells]]
    /\ num_test \in [1..TestRows -> [1..NumNumeric -> NumCells]]
    /\ num_transformer = NumUnfitted
    /\ num_train_out = <<>> /\ num_test_out = <<>>
    /\ num_phase = "new"
    /\ ClIdle /\ SdpIdle /\ BmIdle /\ SpIdle /\ RunIdle

\* num_transformer.fit_transform(X_train[num_columns])
NumFitTransform ==
    /\ num_phase = "new"
    /\ LET scaled == RobustScaler_transform(num_train)
           features_ == MissingIndicator_fit(scaled)
           flagged == MissIndicator_transform(features_, scaled)
           kept == SimpleImputer_fit(flagged)
       IN  /\ num_transformer' = [fitted |-> TRUE, features_ |-> features_, kept |-> kept]
           /\ num_train_out' = SimpleImputer_transform(kept, flagged)
    /\ num_phase' = "fitted"
    /\ UNCHANGED <<num_train, num_test, num_test_out, clVars, sdpVars, bmVars, spVars, runVars>>

\* num_transformer.transform(X_test[num_columns])
NumTransform ==
    /\ num_phase = "fitted"
    /\ num_test_out' =
          SimpleImputer_transform(num_transformer.kept,
              MissIndicator_transform(num_transformer.features_,
                  RobustScaler_transform(num_test)))
    /\ num_phase' = "transformed"
    /\ UNCHANGED <<num_train, num_test, num_transformer, num_train_out,
                   clVars, sdpVars, bmVars, spVars, runVars>>

NumNext == NumFitTransform \/ NumTransform

SpecNumeric == NumInit /\ [][NumNext]_vars

-----------------------------------------------------------------------------
(* Specification Spec: a run of one of the three scripts *)

\* everything a step of the evaluator leaves alone unless named
CvRest == <<dataVars, sweepVars, outerVars, trials, params, roc_auc_y, roc_auc_s>>
\* everything a step of the outer fold body leaves alone unless named
OuterRest == <<dataVars, sweepVars, searchVars, cvVars>>

\* an exception ends the script
Abort(msg) == pc' = "aborted" /\ error' = msg

\* the steps of a fold with a retry: the classifier is fitted again after
\* it has predicted
StepAfterRetrying(fam, step) ==
    IF fam = "lr"
    THEN CASE step = "fit_ct" -> "clf_fit"
           [] step = "clf_fit" -> "transform"
           [] step = "transform" -> "predict"
           [] step = "predict" -> "clf_fit"
    ELSE CASE step = "fit_ct" -> "transform"
           [] step = "transform" -> "clf_fit"
           [] step = "clf_fit" -> "predict"
           [] step = "predict" -> "clf_fit"

\* the order of the steps of a fold: the setting_D scripts call
\* ct.fit_transform, ct.transform, fit, predict_proba; the logistic
\* regression script calls pipeline.fit (ct.fit_transform, then the
\* classifier's fit) and pipeline.predict_proba (ct.transform, then
\* predict_proba)
StepAfter(fam, step) ==
    IF fam = "lr"
    THEN CASE step = "fit_ct" -> "clf_fit"
           [] step = "clf_fit" -> "transform"
           [] step = "transform" -> "predict"
           [] step = "predict" -> "score"
    ELSE CASE step = "fit_ct" -> "transform"
           [] step = "transform" -> "clf_fit"
           [] step = "clf_fit" -> "predict"
           [] step = "predict" -> "score"

\* the configuration a trial's payload stands for: the parameters
\* themselves (fal) or the model built from them (frf, lr)
Payload(fam, prm) == IF fam = "fal" THEN prm ELSE [model |-> prm]
PayloadCfg(fam, tm) == IF fam = "fal" THEN tm.cfg ELSE tm.model.cfg

Init ==
    /\ family \in Families
    /\ data \in Datasets
    /\ rng \in ShuffleKinds
    /\ behaviour \in [ParamSpace -> PredKinds]
    /\ sloopschepen = data_prep([i \in DOMAIN data |-> <<i - 1, i - 1>>])
    /\ pc = "sweep"
    /\ RunUnassigned
    /\ SdpIdle /\ BmIdle /\ SpIdle /\ PpIdle

\* for th in theta_list: fair_adversarial_learning_(th), up to the outer
\* split (the logistic regression script runs the body once)
Sweep ==
    /\ pc = "sweep"
    /\ th <= Len(theta_list(family))
    /\ LET keys == splitter_y(sloopschepen, data)
       IN  IF SplitRaises(keys, K)
           THEN /\ Abort("ValueError: n_splits")
                /\ UNCHANGED <<outer_folds, outer_i, mean_roc_auc, mean_strong_dp>>
           ELSE /\ \E tf \in TestFoldsSet(keys, K, rng) : outer_folds' = Folds(tf, K)
                /\ outer_i' = 1
                /\ mean_roc_auc' = <<>> /\ mean_strong_dp' = <<>>
                /\ pc' = "outer_loop" /\ error' = error
    /\ UNCHANGED <<dataVars, sweepVars, X_train_df, y_train_df, X_test_df, y_test_df,
                   s_train, s_test, params_best_model, searchVars, cvVars, modelVars,
                   sdpVars, bmVars, spVars, ppVars>>

\* the sweep is over: the four result lists are printed
SweepDone ==
    /\ pc = "sweep"
    /\ th > Len(theta_list(family))
    /\ pc' = "done"
    /\ UNCHANGED <<dataVars, error, sweepVars, outerVars, searchVars, cvVars, modelVars,
                   sdpVars, bmVars, spVars, ppVars>>

\* the head of the body of the outer loop: the partitions of the fold
OuterFold ==
    /\ pc = "outer_loop"
    /\ outer_i <= K
    /\ LET fold == outer_folds[outer_i]
           tr == isin(sloopschepen, fold.trainset)
           te == isin(sloopschepen, fold.testset)
       IN  /\ y_train_df' = tr /\ y_test_df' = te
           /\ IF family = "lr"
              THEN /\ s_train' = tr /\ s_test' = te
                   /\ X_train_df' = drop_sensitive(Tbl(tr, "predictors"))
                   /\ X_test_df' = drop_sensitive(Tbl(te, "predictors"))
              ELSE /\ X_train_df' = Tbl(tr, "predictors")
                   /\ X_test_df' = Tbl(te, "predictors")
                   /\ UNCHANGED <<s_train, s_test>>
    /\ theta' = IF family = "fal" THEN theta_list(family)[th] ELSE theta
    /\ trials' = <<>>
    /\ pc' = "fmin"
    /\ UNCHANGED <<dataVars, error, th, auc_list, sdp_list, std_auc_list, std_sdp_list,
                   outer_folds, outer_i, params_best_model, mean_roc_auc, mean_strong_dp,
                   params, roc_auc_y, roc_auc_s, cvVars, modelVars,
                   sdpVars, bmVars, spVars, ppVars>>

\* fmin proposes a configuration and calls objective, which enters
\* cross_val_score_custom: the inner split of the global X_train_df
Propose ==
    /\ pc = "fmin"
    /\ Len(trials) < hyperopt_evals
    /\ \E c \in ParamSpace :
          params' = IF family = "frf"
                    THEN [cfg |-> c, theta |-> theta_list(family)[th]]
                    ELSE [cfg |-> c]
    /\ LET keys == splitter_y(X_train_df.rows, data)
       IN  IF SplitRaises(keys, K)
           THEN /\ Abort("ValueError: n_splits")
                /\ UNCHANGED <<cv_folds, cv_i, auc_perf_list, auc_fair_list>>
           ELSE /\ \E tf \in TestFoldsSet(keys, K, rng) : cv_folds' = Folds(tf, K)
                /\ cv_i' = 1
                /\ auc_perf_list' = <<>> /\ auc_fair_list' = <<>>
                /\ pc' = "cv_loop" /\ error' = error
    /\ UNCHANGED <<dataVars, sweepVars, outerVars, trials, roc_auc_y, roc_auc_s,
                   X_train, y_train, X_test, y_test, cv_s_test, cv_s_train, modelVars,
                   sdpVars, bmVars, spVars, ppVars>>

\* the head of the body of the evaluator's loop: the partitions of the
\* inner fold, the sensitive column taken out of X
CvFold ==
    /\ pc = "cv_loop"
    /\ cv_i <= K
    /\ LET fold == cv_folds[cv_i]
           tr == Tbl(isin(X_train_df.rows, fold.trainset), X_train_df.form)
           te == Tbl(isin(X_train_df.rows, fold.testset), X_train_df.form)
       IN  /\ X_train' = IF family = "lr" THEN tr ELSE drop_sensitive(tr)
           /\ y_train' = isin(y_train_df, fold.trainset)
           /\ X_test' = IF family = "lr" THEN te ELSE drop_sensitive(te)
           /\ y_test' = isin(y_train_df, fold.testset)
           /\ cv_s_test' = CASE family = "fal" -> isin(X_train_df.rows, fold.testset)
                             [] family = "lr" -> isin(s_train, fold.testset)
                             [] family = "frf" -> <<>>
           /\ cv_s_train' = IF family = "lr" THEN <<>> ELSE tr.rows
    /\ pc' = "cv_fit_ct"
    /\ UNCHANGED <<CvRest, error, cv_folds, cv_i, auc_perf_list, auc_fair_list, modelVars,
                   sdpVars, bmVars, spVars, ppVars>>

\* X_train = ct.fit_transform(X_train)
CvFitCt ==
    /\ pc = "cv_fit_ct"
    /\ IF FitRaises(X_train)
       THEN /\ Abort("ValueError: 0 samples") /\ UNCHANGED <<ct, X_train>>
       ELSE /\ ct' = CtFit(X_train)
            /\ X_train' = IF family = "lr" THEN X_train ELSE Matrix(X_train)
            /\ pc' = IF StepAfter(family, "fit_ct") = "transform"
                     THEN "cv_transform" ELSE "cv_clf_fit"
            /\ error' = error
    /\ UNCHANGED <<CvRest, cv_folds, cv_i, y_train, X_test, y_test, cv_s_test, cv_s_train,
                   auc_perf_list, auc_fair_list, clf, y_pred_probs,
                   sdpVars, bmVars, spVars, ppVars>>

\* X_test = ct.transform(X_test)
CvTransform ==
    /\ pc = "cv_transform"
    /\ IF TransformRaises(ct, X_test)
       THEN /\ Abort("ValueError: 0 samples") /\ UNCHANGED X_test
       ELSE /\ X_test' = IF family = "lr" THEN X_test ELSE Matrix(X_test)
            /\ pc' = IF StepAfter(family, "transform") = "clf_fit"
                     THEN "cv_clf_fit" ELSE "cv_predict"
            /\ error' = error
    /\ UNCHANGED <<CvRest, cv_folds, cv_i, X_train, y_train, y_test, cv_s_test, cv_s_train,
                   auc_perf_list, auc_fair_list, modelVars,
                   sdpVars, bmVars, spVars, ppVars>>

\* the classifier of the configuration is built and fitted on the
\* training partition of the inner fold
CvClfFit ==
    /\ pc = "cv_clf_fit"
    /\ clf' = [cfg |-> params.cfg, on |-> Recs(X_train.rows)]
    /\ pc' = IF StepAfter(family, "clf_fit") = "predict"
             THEN "cv_predict" ELSE "cv_transform"
    /\ UNCHANGED <<CvRest, error, cvVars, ct, y_pred_probs, sdpVars, bmVars, spVars, ppVars>>

\* y_pred_probs = cv.predict_proba(X_test).T[1]
CvPredict ==
    /\ pc = "cv_predict"
    /\ y_pred_probs' = predict_proba(behaviour[clf.cfg], X_test.rows, data)
    /\ pc' = "cv_score"
    /\ UNCHANGED <<CvRest, error, cvVars, ct, clf, sdpVars, bmVars, spVars, ppVars>>

\* a score of the fold is appended to each list the evaluator keeps; only
\* fal_model.py looks for non-finite predictions first
CvScore ==
    /\ pc = "cv_score"
    /\ LET perf == roc_auc_score(y_of(y_test, data), y_pred_probs)
           fair == roc_auc_score(s_of(cv_s_test, data), y_pred_probs)
       IN  IF family = "fal" /\ \E i \in DOMAIN y_pred_probs : ~isfinite(y_pred_probs[i])
           THEN /\ auc_perf_list' = Append(auc_perf_list, RHalf)
                /\ auc_fair_list' = Append(auc_fair_list, RHalf)
                /\ cv_i' = cv_i + 1 /\ pc' = "cv_loop" /\ error' = error
           ELSE IF perf.raised \/ (family # "frf" /\ fair.raised)
           THEN /\ Abort("ValueError: roc_auc_score")
                /\ UNCHANGED <<auc_perf_list, auc_fair_list, cv_i>>
           ELSE /\ auc_perf_list' = Append(auc_perf_list, perf.value)
                /\ auc_fair_list' = IF family = "frf" THEN auc_fair_list
                                    ELSE Append(auc_fair_list, fair_auc(fair.value))
                /\ cv_i' = cv_i + 1 /\ pc' = "cv_loop" /\ error' = error
    /\ UNCHANGED <<CvRest, cv_folds, X_train, y_train, X_test, y_test, cv_s_test, cv_s_train,
                   modelVars, sdpVars, bmVars, spVars, ppVars>>

\* the evaluator returns the means; objective turns them into the result
\* of the trial, which fmin records
CvReturn ==
    /\ pc = "cv_loop"
    /\ cv_i > K
    /\ roc_auc_y' = mean(auc_perf_list)
    /\ roc_auc_s' = IF family = "frf" THEN <<>> ELSE mean(auc_fair_list)
    /\ trials' = Append(trials,
                    objective_result(family, theta, roc_auc_y', roc_auc_s',
                                     Payload(family, params)))
    /\ pc' = "fmin"
    /\ UNCHANGED <<dataVars, error, sweepVars, outerVars, params, cvVars, modelVars,
                   sdpVars, bmVars, spVars, ppVars>>

\* fmin returns after max_evals trials; best_model(trials); the sensitive
\* column leaves the two partitions (before the search in the logistic
\* regression script)
BestModel ==
    /\ pc = "fmin"
    /\ Len(trials) >= hyperopt_evals
    /\ LET r == best_model(trials)
       IN  IF r.raised
           THEN /\ Abort(r.error)
                /\ UNCHANGED <<params_best_model, s_train, s_test, X_train_df, X_test_df>>
           ELSE /\ params_best_model' = r.trained_model
                /\ IF family = "lr"
                   THEN UNCHANGED <<s_train, s_test, X_train_df, X_test_df>>
                   ELSE /\ s_train' = X_train_df.rows /\ s_test' = X_test_df.rows
                        /\ X_train_df' = drop_sensitive(X_train_df)
                        /\ X_test_df' = drop_sensitive(X_test_df)
                /\ pc' = "fit_ct" /\ error' = error
    /\ UNCHANGED <<dataVars, sweepVars, searchVars, cvVars, modelVars,
                   outer_folds, outer_i, y_train_df, y_test_df,
                   mean_roc_auc, mean_strong_dp, sdpVars, bmVars, spVars, ppVars>>

\* X_train_df = pd.DataFrame(ct.fit_transform(X_train_df))
FitCt ==
    /\ pc = "fit_ct"
    /\ IF FitRaises(X_train_df)
       THEN /\ Abort("ValueError: 0 samples") /\ UNCHANGED <<ct, X_train_df>>
       ELSE /\ ct' = CtFit(X_train_df)
            /\ X_train_df' = IF family = "lr" THEN X_train_df ELSE Matrix(X_train_df)
            /\ pc' = StepAfter(family, "fit_ct")
            /\ error' = error
    /\ UNCHANGED <<OuterRest, outer_folds, outer_i, y_train_df, X_test_df, y_test_df,
                   s_train, s_test, params_best_model, mean_roc_auc, mean_strong_dp,
                   clf, y_pred_probs, sdpVars, bmVars, spVars, ppVars>>

\* X_test_df = pd.DataFrame(ct.transform(X_test_df))
Transform ==
    /\ pc = "transform"
    /\ IF TransformRaises(ct, X_test_df)
       THEN /\ Abort("ValueError: 0 samples") /\ UNCHANGED X_test_df
       ELSE /\ X_test_df' = IF family = "lr" THEN X_test_df ELSE Matrix(X_test_df)
            /\ pc' = StepAfter(family, "transform")
            /\ error' = error
    /\ UNCHANGED <<OuterRest, outer_folds, outer_i, X_train_df, y_train_df, y_test_df,
                   s_train, s_test, params_best_model, mean_roc_auc, mean_strong_dp,
                   modelVars, sdpVars, bmVars, spVars, ppVars>>

\* the classifier of the best trial is fitted on the training partition of
\* the outer fold
ClfFit ==
    /\ pc = "clf_fit"
    /\ clf' = [cfg |-> PayloadCfg(family, params_best_model), on |-> Recs(X_train_df.rows)]
    /\ pc' = StepAfter(family, "clf_fit")
    /\ UNCHANGED <<OuterRest, error, outerVars, ct, y_pred_probs, sdpVars, bmVars, spVars, ppVars>>

\* y_pred_probs = cv.predict_proba(X_test_df).T[1]
Predict ==
    /\ pc = "predict"
    /\ y_pred_probs' = predict_proba(behaviour[clf.cfg], X_test_df.rows, data)
    /\ pc' = StepAfter(family, "predict")
    /\ UNCHANGED <<OuterRest, error, outerVars, ct, clf, sdpVars, bmVars, spVars, ppVars>>

\* the two scores of the outer fold; only fal_model.py looks for non-finite
\* predictions first
Score ==
    /\ pc = "score"
    /\ LET perf == roc_auc_score(y_of(y_test_df, data), y_pred_probs)
           sdp == strong_demographic_parity_score(s_col(s_test, data), y_pred_probs)
       IN  IF family = "fal" /\ \E i \in DOMAIN y_pred_probs : ~isfinite(y_pred_probs[i])
           THEN /\ mean_roc_auc' = Append(mean_roc_auc, RHalf)
                /\ mean_strong_dp' = Append(mean_strong_dp, RHalf)
                /\ outer_i' = outer_i + 1 /\ pc' = "outer_loop" /\ error' = error
           ELSE IF perf.raised \/ sdp.raised
           THEN /\ Abort("ValueError: roc_auc_score")
                /\ UNCHANGED <<mean_roc_auc, mean_strong_dp, outer_i>>
           ELSE /\ mean_roc_auc' = Append(mean_roc_auc, perf.value)
                /\ mean_strong_dp' = Append(mean_strong_dp, sdp.value)
                /\ outer_i' = outer_i + 1 /\ pc' = "outer_loop" /\ error' = error
    /\ UNCHANGED <<OuterRest, outer_folds, X_train_df, y_train_df, X_test_df, y_test_df,
                   s_train, s_test, params_best_model, modelVars, sdpVars, bmVars, spVars, ppVars>>

\* the body is over for this theta: averages and deviations join the four
\* result lists
OuterReturn ==
    /\ pc = "outer_loop"
    /\ outer_i > K
    /\ auc_list' = Append(auc_list, mean(mean_roc_auc))
    /\ sdp_list' = Append(sdp_list, mean(mean_strong_dp))
    /\ std_auc_list' = Append(std_auc_list, variance(mean_roc_auc))
    /\ std_sdp_list' = Append(std_sdp_list, variance(mean_strong_dp))
    /\ th' = th + 1
    /\ pc' = "sweep"
    /\ UNCHANGED <<dataVars, error, theta, outerVars, searchVars, cvVars, modelVars,
                   sdpVars, bmVars, spVars, ppVars>>

Next ==
    \/ Sweep \/ SweepDone \/ OuterFold \/ OuterReturn
    \/ Propose \/ CvFold \/ CvFitCt \/ CvTransform \/ CvClfFit \/ CvPredict
    \/ CvScore \/ CvReturn
    \/ BestModel \/ FitCt \/ Transform \/ ClfFit \/ Predict \/ Score

Spec == Init /\ [][Next]_vars

-----------------------------------------------------------------------------
(* Claims about the fold selection (specification SpecSplit) *)

\* no record twice in a table
NoDuplicates(tbl) == Cardinality(Recs(tbl)) = Len(tbl)

\* the folds partition the rows of X: in each fold the training and the test
\* rows are disjoint and together are the rows of X, and each row of X is a
\* test row of exactly one fold
FoldsPartition(X, folds) ==
    /\ \A f \in DOMAIN folds :
          /\ Recs(folds[f].X_train) \cap Recs(folds[f].X_test) = {}
          /\ Recs(folds[f].X_train) \cup Recs(folds[f].X_test) = Recs(X)
          /\ NoDuplicates(folds[f].X_train) /\ NoDuplicates(folds[f].X_test)
    /\ \A r \in Recs(X) :
          Cardinality({f \in DOMAIN folds : r \in Recs(folds[f].X_test)}) = 1

\* C1 (as claimed): the inner folds built by cross_val_score_custom on the
\* training partition of an outer fold partition the rows of that
\* partition: disjoint and exhaustive in every fold, every row tested in
\* exactly one fold.
C1_InnerFoldsPartition ==
    sp_phase = "inner" => FoldsPartition(sp_inner.X, sp_inner.folds)

\* C2: the outer folds partition the dataset prepared by data_prep:
\* training and test rows disjoint and together the full dataset in every
\* fold, every record a test record of exactly one fold.
C2_OuterFoldsPartition ==
    sp_phase \in {"outer", "inner"}
        => /\ Len(sp_outer) = K
           /\ Recs(sp_X) = {i - 1 : i \in DOMAIN sp_data}
           /\ FoldsPartition(sp_X, sp_outer)

\* a loader index with gaps, reset by data_prep, and folds that each test
\* at least two records
C2_Witness ==
    /\ sp_phase = "outer"
    /\ Labels(sp_df) # Labels(sp_X)
    /\ Len(sp_X) = MaxRows
    /\ \A f \in DOMAIN sp_outer : Len(sp_outer[f].X_test) >= 2

-----------------------------------------------------------------------------
(* Claims about best_model (specification SpecBest) *)

BmSuccessful == {i \in DOMAIN bm_trials : bm_trials[i].status = STATUS_OK}

\* C5: with at least one successful trial in the log, best_model returns the
\* payload of a successful trial whose loss is the minimum over the
\* successful trials, the earliest such trial; a failed trial is never
\* returned, even with a lower loss.
C5_BestIsFirstMinimalSuccess ==
    (bm_ret.called /\ BmSuccessful # {})
        => /\ ~bm_ret.raised
           /\ bm_ret.trained_model \in BmSuccessful
           /\ \A j \in BmSuccessful :
                 /\ RLeq(bm_trials[bm_ret.trained_model].loss, bm_trials[j].loss)
                 /\ j < bm_ret.trained_model
                       => RLess(bm_trials[bm_ret.trained_model].loss, bm_trials[j].loss)

\* the log of the example, losses [0.3, -0.1, 0.5], all successful: the
\* trial at (0-based) index 1 is returned
C5_Witness ==
    /\ bm_ret.called
    /\ [i \in DOMAIN bm_trials |-> bm_trials[i].loss] = << <<3, 10>>, <<-1, 10>>, <<1, 2>> >>
    /\ BmSuccessful = {1, 2, 3}
    /\ bm_ret.trained_model = 2

\* C6 (as claimed): with no successful trial in the log (all failed, or the
\* log empty) best_model ends in an explicit "no valid trial" error and
\* returns no payload.
C6_ExplicitNoValidTrialError ==
    (bm_ret.called /\ BmSuccessful = {})
        => /\ bm_ret.raised
           /\ bm_ret.error = "no valid trial"
           /\ bm_ret.trained_model = 0

-----------------------------------------------------------------------------
(* Claims about strong_demographic_parity_score (specification SpecSdp) *)

SdpFinite == \A i \in DOMAIN sdp_y_prob : isfinite(sdp_y_prob[i])

\* AUC of the indicator "record has value v" against the predictions
IndicatorAuc(v) == roc_auc_score(s_bool(sdp_s, v), sdp_y_prob).value

\* C8: for a non-empty sample with finite predicted probabilities and one
\* protected column, the returned score v satisfies 0 <= v <= 1 (and the
\* call does not raise).
C8_SdpInUnitInterval ==
    (sdp_ret.called /\ Len(sdp_s) > 0 /\ SdpFinite)
        => /\ ~sdp_ret.raised
           /\ RLeq(RInt(0), sdp_ret.value)
           /\ RLeq(sdp_ret.value, RInt(1))

C8_Witness ==
    /\ sdp_ret.called /\ SdpFinite
    /\ Cardinality(unique(sdp_s)) >= 2
    /\ sdp_ret.value = <<1, 2>>

\* C9: with at least two distinct protected values the score is 0 exactly
\* when every value's indicator AUC is 1/2, it is 1 whenever some value's
\* AUC is 0 or 1, and it equals |2*m - 1| for m the maximum over the values
\* of max(auc, 1 - auc).
C9_SdpZeroOneCharacterisation ==
    (sdp_ret.called /\ SdpFinite /\ Cardinality(unique(sdp_s)) >= 2)
        => LET vals == unique(sdp_s)
               sym(v) == RMax(IndicatorAuc(v), RSub(RInt(1), IndicatorAuc(v)))
               m == CHOOSE x \in {sym(v) : v \in vals} :
                        \A v \in vals : RLeq(sym(v), x)
           IN  /\ ~sdp_ret.raised
               /\ (sdp_ret.value = RInt(0)) <=> (\A v \in vals : IndicatorAuc(v) = RHalf)
               /\ (\E v \in vals : IndicatorAuc(v) \in {RInt(0), RInt(1)})
                      => sdp_ret.value = RInt(1)
               /\ sdp_ret.value = RAbs(RSub(RMul(RInt(2), m), RInt(1)))

\* three protected values, the lowest perfectly separable downwards (AUC 0),
\* none with AUC 1
C9_Witness ==
    /\ sdp_ret.called /\ SdpFinite
    /\ Cardinality(unique(sdp_s)) = 3
    /\ \E v \in unique(sdp_s) : IndicatorAuc(v) = RInt(0)
    /\ \A v \in unique(sdp_s) : IndicatorAuc(v) # RInt(1)
    /\ sdp_ret.value = RInt(1)

\* C10: when the protected column holds one distinct value the score is 1
\* for any predictions, no AUC is computed and nothing is raised.
C10_SdpSingleGroupIsOne ==
    (sdp_ret.called /\ Cardinality(unique(sdp_s)) = 1)
        => /\ ~sdp_ret.raised
           /\ sdp_ret.value = RInt(1)
           /\ sdp_ret.auc_calls = 0

C10_Witness ==
    /\ sdp_ret.called
    /\ Len(sdp_s) >= 2 /\ Cardinality(unique(sdp_s)) = 1
    /\ ~SdpFinite
    /\ sdp_ret.value = RInt(1) /\ ~sdp_ret.raised

-----------------------------------------------------------------------------
(* Claims about strong_demographic_parity_score on several columns         *)
(* (specification SpecSdpColumns)                                          *)

\* C11: given two or more protected columns (and finite predictions), the
\* function does not raise and returns a sequence with one entry per
\* column, entry i being |2*s_i - 1| for the score s_i of column i.
C11_PerColumnSequence ==
    (sdp_ret.called /\ Len(sdp_s) >= 2 /\ \A i \in DOMAIN sdp_y_prob : isfinite(sdp_y_prob[i])) =>
        /\ ~sdp_ret.raised
        /\ sdp_ret.value =
              [c \in DOMAIN sdp_s |->
                  RAbs(RSub(RMul(RInt(2), ColumnScore(sdp_s[c], sdp_y_prob).value), RInt(1)))]

-----------------------------------------------------------------------------
(* Claims about the Clamper (specification SpecClamper) *)

\* C12: for a fitted Clamper, transform(transform(X)) equals transform(X),
\* also when the literal "other" is a category of the data, retained or
\* not.
C12_TransformIdempotent ==
    cl_phase = "again" => transformed_again = transformed_X

\* "other" is a retained category of the training data, the first
\* transform changed a cell, and the second one has been applied
C12_Witness ==
    /\ cl_phase = "again"
    /\ "other" \in SeqSet(clamper.values_to_keep)
    /\ transformed_X # cl_X
    /\ transformed_again = transformed_X

\* C13: transform maps every cell whose value is retained to itself and
\* every other cell, values never seen during fit included, to "other";
\* it uses the retained values computed at fit time and does not change
\* them.
C13_TransformUsesFittedValues ==
    [][(cl_phase \in {"fitted", "transformed"}) =>
          /\ clamper' = clamper
          /\ cl_phase = "fitted" =>
                transformed_X' =
                   [i \in DOMAIN cl_X |->
                       IF \E k \in DOMAIN clamper.values_to_keep :
                              clamper.values_to_keep[k] = cl_X[i]
                       THEN cl_X[i] ELSE "other"]]_vars

\* the column transformed held a retained value, kept, and a value never
\* seen during fit, now "other"
C13_Witness ==
    /\ cl_phase = "transformed"
    /\ \E i \in DOMAIN cl_X :
          /\ cl_X[i] \in SeqSet(clamper.values_to_keep) /\ cl_X[i] # "other"
          /\ transformed_X[i] = cl_X[i]
    /\ \E i \in DOMAIN cl_X :
          /\ cl_X[i] \notin SeqSet(cl_train) /\ cl_X[i] # "other"
          /\ transformed_X[i] = "other"

\* the relative frequency of a value of the training column, and the
\* threshold 1/n
RelFreq(v) == Rat(Count(cl_train, v), Len(cl_train))
Threshold == Rat(1, Cardinality(SeqSet(cl_train)))

\* C14: after fit the retained set holds every category whose relative
\* frequency is above 1/n and no category whose relative frequency is
\* below 1/n (n the number of distinct categories).
C14_RetainedIsAboveThreshold ==
    clamper.is_fit =>
        \A v \in SeqSet(cl_train) :
            /\ RLess(Threshold, RelFreq(v)) => v \in SeqSet(clamper.values_to_keep)
            /\ RLess(RelFreq(v), Threshold) => v \notin SeqSet(clamper.values_to_keep)

-----------------------------------------------------------------------------
(* Claims about num_transformer (specification SpecNumeric) *)

\* C19: the numeric sub-pipeline outputs two columns per numeric column,
\* the scaled value and a missingness flag, for every training partition,
\* whether or not a column holds a missing value there; the transformed
\* test partition is as wide as the transformed training partition.
C19_TwoColumnsPerNumericColumn ==
    /\ num_phase \in {"fitted", "transformed"} =>
          \A r \in DOMAIN num_train_out :
              /\ Len(num_train_out[r]) = 2 * NumNumeric
              /\ \A col \in 1..NumNumeric :
                    /\ num_train_out[r][col].kind \in {"scaled", "imputed"}
                    /\ num_train_out[r][NumNumeric + col].kind = "flag"
    /\ num_phase = "transformed" =>
          \A r \in DOMAIN num_test_out :
              Len(num_test_out[r]) = Len(num_train_out[1])

-----------------------------------------------------------------------------
(* Claims about a run of a script (specification Spec) *)

\* C3: whenever ct is about to be applied to a test partition (of an inner
\* fold of the evaluator or of an outer fold), its fit state is the one of
\* a fit on the training partition the script selected for that same fold,
\* and no row of the test partition is among the rows it was fitted on.
C3_CtFittedOnCurrentTrainingPartition ==
    /\ pc = "cv_transform" =>
          /\ ct.fitted
          /\ ct.on = Recs(isin(X_train_df.rows, cv_folds[cv_i].trainset))
          /\ ct.on \cap Recs(X_test.rows) = {}
    /\ pc = "transform" =>
          /\ ct.fitted
          /\ ct.on = Recs(isin(sloopschepen, outer_folds[outer_i].trainset))
          /\ ct.on \cap Recs(X_test_df.rows) = {}

\* ct is about to transform the test partition of the second inner fold of
\* a later trial, outer fold and theta: fits of earlier ones lie behind
C3_Witness ==
    /\ pc = "cv_transform" /\ cv_i = 2 /\ Len(trials) = 1 /\ outer_i = 2 /\ th = 2
    /\ ct.on # {} /\ X_test.rows # <<>>

\* the theta of the sweep in progress, and the loss recorded last
CurrentTheta == theta_list(family)[th]
LastLoss == trials[Len(trials)].loss
WeightedDifference(tenths, perf, fair) ==
    RSub(RMul(RSub(RInt(1), Theta(tenths)), perf), RMul(Theta(tenths), fair))

C7_NonFiniteFoldScoresNeutral ==
    [][(pc = "cv_score" /\ \E i \in DOMAIN y_pred_probs : ~isfinite(y_pred_probs[i])) =>
          /\ auc_perf_list' = Append(auc_perf_list, RHalf)
          /\ family # "frf" => auc_fair_list' = Append(auc_fair_list, RHalf)
          /\ error' = "" /\ pc' = "cv_loop" /\ cv_i' = cv_i + 1]_vars


\* the theta handed to the search and the final fit of the outer fold in
\* progress: the global theta (fal, lr) or the model's parameter (frf)
ThetaInUse == IF family = "frf" THEN params_best_model.model.theta ELSE theta

\* the four result lists
ResultLists == <<auc_list, sdp_list, std_auc_list, std_sdp_list>>

OuterTrainRecs == Recs(isin(sloopschepen, outer_folds[outer_i].trainset))
OuterTestRecs == Recs(isin(sloopschepen, outer_folds[outer_i].testset))

\* the phases of the body of an outer fold in the order of the claim:
\* search, preprocessing refit, fit of the chosen configuration (with the
\* transform of the test partition before or after it), evaluation
PhaseNumber ==
    [p \in {"fmin", "fit_ct", "transform", "clf_fit", "predict", "score"} |->
        CASE p = "fmin" -> 1
          [] p = "fit_ct" -> 2
          [] p = "transform" -> IF family = "lr" THEN 4 ELSE 3
          [] p = "clf_fit" -> IF family = "lr" THEN 3 ELSE 4
          [] p = "predict" -> 5
          [] p = "score" -> 6]

\* C16: in every outer fold the trials are recorded one by one up to
\* hyperopt_evals, only then best_model selects, then the preprocessing
\* pipeline is refit on the outer training partition, then the chosen
\* configuration is fitted on it, then one evaluation on the outer test
\* partition appends exactly one performance and one fairness score; no
\* phase is entered twice in a fold.
C16_PhasesInOrderOnce ==
    /\ [](Len(trials) <= hyperopt_evals)
    /\ [](pc \in {"fit_ct", "transform", "clf_fit", "predict", "score"} =>
             /\ Len(trials) = hyperopt_evals
             /\ params_best_model = best_model(trials).trained_model)
    /\ [](pc = "score" =>
             /\ ct.fitted /\ ct.on = OuterTrainRecs
             /\ clf.on = OuterTrainRecs
             /\ clf.cfg = PayloadCfg(family, params_best_model)
             /\ Recs(X_test_df.rows) = OuterTestRecs
             /\ Len(y_pred_probs) = Len(X_test_df.rows)
             /\ Len(mean_roc_auc) = outer_i - 1 /\ Len(mean_strong_dp) = outer_i - 1)
    /\ [][/\ (pc \in DOMAIN PhaseNumber /\ pc' \in DOMAIN PhaseNumber /\ pc' # pc) =>
                PhaseNumber[pc'] = PhaseNumber[pc] + 1
          /\ (pc = "fmin" /\ pc' = "fit_ct") => Len(trials) = hyperopt_evals
          /\ trials' # trials =>
                \/ trials' = <<>> /\ pc = "outer_loop"
                \/ pc = "cv_loop" /\ Len(trials') = Len(trials) + 1
                      /\ SubSeq(trials', 1, Len(trials)) = trials
          /\ (pc = "score" /\ pc' = "outer_loop") =>
                /\ Len(mean_roc_auc') = Len(mean_roc_auc) + 1
                /\ Len(mean_strong_dp') = Len(mean_strong_dp) + 1
                /\ outer_i' = outer_i + 1
          /\ mean_roc_auc' # mean_roc_auc => pc \in {"score", "sweep"}
          /\ (clf' # clf /\ pc \in DOMAIN PhaseNumber) => pc = "clf_fit"
          /\ (ct' # ct /\ pc \in DOMAIN PhaseNumber) => pc = "fit_ct"]_vars

\* the second outer fold of a theta has been evaluated
C16_Witness ==
    /\ pc = "outer_loop" /\ outer_i = K + 1
    /\ Len(trials) = hyperopt_evals
    /\ Len(mean_roc_auc) = K /\ Len(mean_strong_dp) = K
    /\ clf.on # {}


InUnit(x) == RLeq(RInt(0), x) /\ RLeq(x, RInt(1))

\* C17: the scores the evaluator returns lie in [0,1]; they are the means
\* of the per-fold scores, and the fairness score of a fold with finite
\* predictions is 0.5 + |0.5 - AUC(protected value, prediction)|.
C17_EvaluatorScoresInUnitInterval ==
    /\ (pc = "fmin" /\ trials # <<>>) =>
          /\ Len(auc_perf_list) = K
          /\ roc_auc_y = RMul(RSum(auc_perf_list), Rat(1, K))
          /\ InUnit(roc_auc_y)
          /\ family # "frf" =>
                /\ Len(auc_fair_list) = K
                /\ roc_auc_s = RMul(RSum(auc_fair_list), Rat(1, K))
                /\ InUnit(roc_auc_s) /\ RLeq(RHalf, roc_auc_s)
    /\ (pc = "cv_loop" /\ auc_fair_list # <<>>
            /\ \A i \in DOMAIN y_pred_probs : isfinite(y_pred_probs[i])) =>
          /\ auc_perf_list[Len(auc_perf_list)] = AucValue(y_of(y_test, data), y_pred_probs)
          /\ auc_fair_list[Len(auc_fair_list)] =
                RAdd(RHalf, RAbs(RSub(RHalf, AucValue(s_of(cv_s_test, data), y_pred_probs))))

\* the evaluator has returned two scores, the fairness one off 0.5 and the
\* performance one off the fairness one
C17_Witness ==
    /\ pc = "fmin" /\ trials # <<>> /\ family = "lr"
    /\ roc_auc_s # RHalf /\ roc_auc_y # roc_auc_s
    /\ RLess(roc_auc_y, RInt(1))


\* the classifier fitted last predicts 0.5 for every record
ConstantClassifier == clf.cfg \in DOMAIN behaviour /\ behaviour[clf.cfg] = "const"

\* the test partition of the outer fold just evaluated holds both target
\* classes and both protected values
BothClassesBothGroups ==
    /\ SeqSet(y_of(y_test_df, data)) = {TRUE, FALSE}
    /\ Cardinality(unique(s_col(s_test, data))) = 2

\* C18: with a classifier predicting 0.5 for every record, an outer fold
\* whose test partition holds both target classes and both protected
\* values scores performance 0.5 and strong demographic parity 0; when
\* every configuration predicts that way the reported means are 0.5 and 0.
C18_ConstantClassifierScores ==
    /\ (pc = "outer_loop" /\ mean_roc_auc # <<>> /\ ConstantClassifier
            /\ BothClassesBothGroups) =>
          /\ mean_roc_auc[Len(mean_roc_auc)] = RHalf
          /\ mean_strong_dp[Len(mean_strong_dp)] = RInt(0)
    /\ (pc \in {"sweep", "done"} /\ th > 1
            /\ \A cfg \in ParamSpace : behaviour[cfg] = "const") =>
          /\ auc_list[th - 1] = RHalf
          /\ sdp_list[th - 1] = RInt(0)

\* an adversarial-debiasing sweep with constant classifiers has reported
\* its means
C18_Witness ==
    /\ pc = "done" /\ family = "fal"
    /\ \A cfg \in ParamSpace : behaviour[cfg] = "const"
    /\ BothClassesBothGroups
    /\ auc_list[1] = RHalf /\ sdp_list[1] = RInt(0)


\* the rows in table order, as records of the dataset
RecSeq(rows) == [i \in DOMAIN rows |-> Rec(rows[i])]

\* the key of a stratified split of the rows: target and protected value
StratificationKey(rows) ==
    [i \in DOMAIN rows |-> <<data[Rec(rows[i]) + 1][1], data[Rec(rows[i]) + 1][2]>>]

\* C20: the table handed to ct (to fit it or to transform with it) holds
\* neither the target nor the protected column; the folds of every split
\* come from a key built from target and protected value; and a fold's
\* fairness score, where one is computed, is computed from the protected
\* values of exactly the fold's test rows.
C20_ProtectedExcludedButUsed ==
    /\ pc = "cv_fit_ct" => Columns(X_train.form) = {"features"}
    /\ pc = "cv_transform" => Columns(X_test.form) = {"features"}
    /\ pc = "fit_ct" => Columns(X_train_df.form) = {"features"}
    /\ pc = "transform" => Columns(X_test_df.form) = {"features"}
    /\ pc \in {"outer_loop", "fmin", "fit_ct", "transform", "clf_fit", "predict", "score"} =>
          \E tf \in TestFoldsSet(StratificationKey(sloopschepen), K, rng) :
              outer_folds = Folds(tf, K)
    /\ pc \in {"cv_loop", "cv_fit_ct", "cv_transform", "cv_clf_fit", "cv_predict", "cv_score"} =>
          \E tf \in TestFoldsSet(StratificationKey(X_train_df.rows), K, rng) :
              cv_folds = Folds(tf, K)
    /\ (pc = "cv_score" /\ family # "frf") => RecSeq(cv_s_test) = RecSeq(X_test.rows)
    /\ pc = "score" =>
          /\ RecSeq(s_test) = RecSeq(X_test_df.rows)
          /\ Recs(s_test) = OuterTestRecs
    /\ (pc = "outer_loop" /\ mean_strong_dp # <<>>
            /\ \A i \in DOMAIN y_pred_probs : isfinite(y_pred_probs[i])) =>
          mean_strong_dp[Len(mean_strong_dp)] =
              strong_demographic_parity_score(
                  [i \in DOMAIN X_test_df.rows |-> data[Rec(X_test_df.rows[i]) + 1][2]],
                  y_pred_probs).value

\* an inner fold of the adversarial-debiasing evaluator is about to be
\* scored: ct has seen tables without the protected column, the protected
\* values of the test rows are at hand
C20_Witness ==
    /\ pc = "cv_score" /\ family = "fal"
    /\ X_test.rows # <<>> /\ RecSeq(cv_s_test) = RecSeq(X_test.rows)
    /\ Cardinality(unique(s_col(cv_s_test, data))) = 2

-----------------------------------------------------------------------------
(* C21: the globals a trial of fal_model.py reads *)

\* the positions of the script at which a trial of the search of the
\* current outer fold is about to start or is being evaluated
SearchPcs == {"fmin", "cv_loop", "cv_fit_ct", "cv_transform", "cv_clf_fit",
              "cv_predict", "cv_score"}
\* the positions at which the partitions of an inner fold are in use
InnerFoldPcs == SearchPcs \ {"fmin", "cv_loop"}

\* the rows of the prepared table whose label the current outer fold puts
\* in its training / test partition
RawTrainingPartition ==
    SelectSeq(sloopschepen, LAMBDA row : Label(row) \in outer_folds[outer_i].trainset)
RawTestPartition ==
    SelectSeq(sloopschepen, LAMBDA row : Label(row) \in outer_folds[outer_i].testset)

\* the records an inner fold of the evaluator works on
TrialReads ==
    Recs(X_train.rows) \cup Recs(X_test.rows) \cup Recs(y_train) \cup Recs(y_test)
        \cup Recs(cv_s_test)

\* C21: in fal_model.py, whenever a trial of the search of an outer fold
\* starts or runs, X_train_df and y_train_df hold the raw training partition
\* of the current outer fold (all predictors, the sensitive column among
\* them, not transformed) and theta is the current value of the sweep; the
\* table X_train_df was turned into after the search of an earlier fold or
\* theta is never what a trial sees, and the partitions of an inner fold
\* hold no record of the current outer test partition.
C21_TrialSeesCurrentRawPartition ==
    (family = "fal" /\ pc \in SearchPcs) =>
        /\ X_train_df = Tbl(RawTrainingPartition, "predictors")
        /\ "sensitive" \in Columns(X_train_df.form)
        /\ y_train_df = RawTrainingPartition
        /\ theta = theta_list(family)[th]
        /\ pc \in InnerFoldPcs => TrialReads \cap Recs(RawTestPartition) = {}

\* a trial of the second outer fold of the second theta is being scored:
\* X_train_df has been dropped and transformed after three searches before
C21_Witness ==
    /\ family = "fal" /\ pc = "cv_score"
    /\ th = 2 /\ outer_i = 2 /\ Len(trials) = 1
    /\ Len(auc_list) = 1 /\ Len(mean_roc_auc) = 1
    /\ X_test.rows # <<>> /\ RawTestPartition # <<>>

-----------------------------------------------------------------------------
(* C22: what Clamper.fit retains *)

\* the training categories at the smallest distance from 1/n
Closest ==
    {v \in SeqSet(cl_train) :
        \A w \in SeqSet(cl_train) :
            RLeq(ThresholdDistance(cl_train, v), ThresholdDistance(cl_train, w))}

\* the most frequent categories
MostFrequent ==
    {v \in SeqSet(cl_train) :
        \A w \in SeqSet(cl_train) : Count(cl_train, v) >= Count(cl_train, w)}

\* the retained values are the part of a frequency ranking before a
\* category closest to 1/n
PrefixBeforeClosest(keep) ==
    \E r \in value_counts(cl_train) : \E k \in DOMAIN r :
        /\ r[k] \in Closest
        /\ keep = SubSeq(r, 1, k - 1)
        /\ \A v \in SeqSet(cl_train) :
              Count(cl_train, v) <= Count(cl_train, r[k]) => v \notin SeqSet(keep)

\* fit_transform has run (fit alone returns no table)
FitTransformed == cl_phase = "fitted" /\ transformed_X # <<>>

\* C22: after Clamper.fit (or fit_transform) on a non-empty column the
\* retained values are a proper prefix of the frequency ranking that ends
\* before a category closest to 1/n, so that this category and every less
\* frequent one are left out; the retained set is never the whole set of
\* categories; fit_transform turns every cell of at least one training
\* category into "other"; and when the categories closest to 1/n are the
\* most frequent ones (all categories equally frequent, a single category)
\* nothing is retained and every cell becomes "other".
C22_RetainedIsProperPrefix ==
    (cl_phase # "new") =>
        LET keep == clamper.values_to_keep
        IN  /\ PrefixBeforeClosest(keep)
            /\ Len(keep) < Cardinality(SeqSet(cl_train))
            /\ SeqSet(keep) # SeqSet(cl_train)
            /\ FitTransformed =>
                  \E v \in SeqSet(cl_train) :
                      \A i \in DOMAIN cl_train :
                          cl_train[i] = v => transformed_X[i] = "other"
            /\ Closest \subseteq MostFrequent =>
                  /\ keep = <<>>
                  /\ FitTransformed =>
                        \A i \in DOMAIN transformed_X : transformed_X[i] = "other"

\* fit_transform on a column of three categories, the first of which is
\* retained and the two others are not
C22_Witness ==
    /\ FitTransformed
    /\ Cardinality(SeqSet(cl_train)) = 3
    /\ Len(clamper.values_to_keep) = 1
    /\ "other" \notin SeqSet(cl_train)
    /\ Cardinality(SeqSet(transformed_X)) = 2

-----------------------------------------------------------------------------
(* C23: the parts of an inner fold belong to the same records *)

\* the index labels of the evaluator's input are not its positions
InputRelabelled ==
    \E i \in DOMAIN y_train_df : Label(y_train_df[i]) # i - 1

\* C23: in every fold of cross_val_score_custom, whatever the index labels
\* of its input, the rows of X_train, the labels y_train and the protected
\* values s_train are those of the same records in the same order, and so
\* are X_test, y_test and s_test; the prediction scored against the label
\* and the protected value at a position is the prediction for the record
\* of that label and that protected value.
C23_FoldPartsAligned ==
    (pc \in InnerFoldPcs) =>
        /\ RecSeq(X_train.rows) = RecSeq(y_train)
        /\ RecSeq(X_test.rows) = RecSeq(y_test)
        /\ family # "lr" => RecSeq(cv_s_train) = RecSeq(y_train)
        /\ family # "frf" => RecSeq(cv_s_test) = RecSeq(y_test)
        /\ pc = "cv_score" =>
              /\ clf.on = Recs(y_train)
              /\ DOMAIN y_pred_probs = DOMAIN y_test
              /\ y_pred_probs = predict_proba(behaviour[clf.cfg], y_test, data)

\* a fold of an input whose labels are not its positions is being scored:
\* two or more test records, predictions that differ from record to record
C23_Witness ==
    /\ pc = "cv_score" /\ family = "fal"
    /\ InputRelabelled
    /\ Len(y_test) >= 2 /\ Len(y_train) >= 2
    /\ Cardinality(SeqSet(y_pred_probs)) >= 2
    /\ RecSeq(y_test) # [i \in DOMAIN y_test |-> Rec(y_test[Len(y_test) + 1 - i])]

-----------------------------------------------------------------------------
(* C24: the trial log holds successful trials only *)

\* the positions of the script after best_model has returned for the
\* current outer fold
AfterBestModelPcs == {"fit_ct", "transform", "clf_fit", "predict", "score"}

\* C24: every result objective returns has status success, so the trial log
\* holds successful trials only, and when best_model runs its valid trials
\* are the whole log (best_model never finds the log without a valid
\* trial); an exception during the evaluation of a trial adds nothing to
\* the log, ends the script, and best_model is not reached afterwards.
C24_EveryTrialSuccessful ==
    /\ [](/\ \A i \in DOMAIN trials : trials[i].status = STATUS_OK
          /\ ValidTrials(trials) = trials
          /\ error # ArgminEmptyError)
    /\ [](pc \in AfterBestModelPcs =>
             /\ Len(ValidTrials(trials)) = hyperopt_evals
             /\ ~best_model(trials).raised)
    /\ [][/\ trials' # trials /\ trials' # <<>> =>
                /\ pc = "cv_loop" /\ pc' = "fmin"
                /\ trials'[Len(trials')].status = STATUS_OK
          /\ (pc \in SearchPcs /\ pc' = "aborted") =>
                /\ trials' = trials
                /\ params_best_model' = params_best_model
          /\ pc = "aborted" => UNCHANGED <<pc, trials, params_best_model>>]_vars

\* the script has ended in an exception raised while the second trial of
\* the second outer fold was evaluated: the log holds the first trial
\* alone; best_model has run for the first outer fold
C24_Witness ==
    /\ pc = "aborted" /\ error = "ValueError: roc_auc_score"
    /\ outer_i = 2 /\ Len(trials) = 1
    /\ params_best_model # [cfg |-> "none"]
    /\ Len(mean_roc_auc) = 1
    /\ cv_i <= K

=============================================================================
